---------------------------- MODULE Spec2Model ----------------------------
(***************************************************************************)
(* A model of pdf_to_json.py: PDFtoJSONConverter (extract_metadata,        *)
(* extract_page_content, convert, save_as_json) and main.                  *)
(*                                                                         *)
(* Python text is a sequence of one-character strings, so that startswith, *)
(* slicing, strptime, str.split and the JSON writer work on characters.    *)
(* A Python value is a record with one field that names its type:          *)
(*   [none |-> TRUE]   [bool |-> b]   [int |-> n]   [float |-> <<n, d>>]   *)
(*   [str |-> chars]   [list |-> seq] [dict |-> seq of <<key, value>>]     *)
(* A dict keeps its insertion order, as Python's does; a float is the      *)
(* exact quotient n/d in lowest terms.                                     *)
(***************************************************************************)
EXTENDS Integers, Sequences, FiniteSets, TLC

VARIABLES
    pdf,        \* the document behind args.input_pdf, as pdfplumber exposes it
    args,       \* the parsed command line: output given?, pretty?
    disk,       \* what opening / writing the output path does
    pc,         \* where main (and convert inside it) stands
    result,     \* convert's local `result`, under construction
    i,          \* convert's loop index over pdf.pages
    ret,        \* what convert returned to main
    outfile,    \* the output file's content
    stdout,     \* what was printed, in order
    exitCode    \* the process's exit status once pc = "exit"

vars == <<pdf, args, disk, pc, result, i, ret, outfile, stdout, exitCode>>

----------------------------------------------------------------------------
(* Python values *)

PyNone == [none |-> TRUE]
PyBool(b) == [bool |-> b]
PyInt(n) == [int |-> n]
PyStr(s) == [str |-> s]
PyList(s) == [list |-> s]
PyDict(s) == [dict |-> s]

IsNone(v) == "none" \in DOMAIN v
IsBool(v) == "bool" \in DOMAIN v
IsInt(v) == "int" \in DOMAIN v
IsFloat(v) == "float" \in DOMAIN v
IsStr(v) == "str" \in DOMAIN v
IsList(v) == "list" \in DOMAIN v
IsDict(v) == "dict" \in DOMAIN v

RECURSIVE Gcd(_, _)
Gcd(a, b) == IF b = 0 THEN a ELSE Gcd(b, a % b)

\* The float n/d (d > 0, n >= 0).
PyFloat(n, d) == LET g == Gcd(n, d) IN [float |-> <<n \div g, d \div g>>]

\* Python's truth value of an object: None, False, 0, "" and empty
\* containers are false.
Truthy(v) ==
    IF IsNone(v) THEN FALSE
    ELSE IF IsBool(v) THEN v.bool
    ELSE IF IsInt(v) THEN v.int # 0
    ELSE IF IsFloat(v) THEN v.float[1] # 0
    ELSE IF IsStr(v) THEN Len(v.str) > 0
    ELSE IF IsList(v) THEN Len(v.list) > 0
    ELSE Len(v.dict) > 0

\* k in d
HasKey(d, k) == \E n \in 1..Len(d.dict) : d.dict[n][1] = k

\* d[k], for a key that is in d
Get(d, k) == d.dict[CHOOSE n \in 1..Len(d.dict) : d.dict[n][1] = k][2]

\* d[k] = v: replaces the value in place, or appends a new entry
DictSet(d, k, v) ==
    IF HasKey(d, k)
    THEN PyDict([n \in 1..Len(d.dict) |->
                   IF d.dict[n][1] = k THEN <<k, v>> ELSE d.dict[n]])
    ELSE PyDict(Append(d.dict, <<k, v>>))

Keys(d) == {d.dict[n][1] : n \in 1..Len(d.dict)}

----------------------------------------------------------------------------
(* Text *)

Digits == <<"0", "1", "2", "3", "4", "5", "6", "7", "8", "9">>
DigitSet == {Digits[n] : n \in 1..10}
IsDigit(c) == c \in DigitSet
DigitVal(c) == (CHOOSE n \in 1..10 : Digits[n] = c) - 1

\* str.isspace for the characters of the model
Whitespace == {" ", "\n", "\t", "\r"}

\* int(s) for a text of digits, leading blanks allowed (int(" 5") = 5)
RECURSIVE ToInt(_)
ToInt(s) ==
    IF Len(s) = 0 THEN 0
    ELSE IF s[1] \in Whitespace THEN ToInt(Tail(s))
    ELSE LET n == Len(s) IN 10 * ToInt(SubSeq(s, 1, n - 1)) + DigitVal(s[n])

\* str(n) for n >= 0
RECURSIVE IntToChars(_)
IntToChars(n) ==
    IF n < 10 THEN <<Digits[n + 1]>>
    ELSE Append(IntToChars(n \div 10), Digits[(n % 10) + 1])

\* '%0<w>d' % n
RECURSIVE ZeroPad(_, _)
ZeroPad(n, w) ==
    LET s == IntToChars(n)
    IN  IF Len(s) >= w THEN s ELSE <<"0">> \o ZeroPad(n, w - 1)

\* s.startswith(p)
StartsWith(s, p) == Len(s) >= Len(p) /\ SubSeq(s, 1, Len(p)) = p

\* p in s, for texts
Contains(s, p) ==
    \E n \in 1..(Len(s) - Len(p) + 1) : SubSeq(s, n, n + Len(p) - 1) = p

\* s[a:] and s[:b] with Python's clipping
SliceFrom(s, a) == IF a >= Len(s) THEN <<>> ELSE SubSeq(s, a + 1, Len(s))
SliceTo(s, b) == IF b >= Len(s) THEN s ELSE SubSeq(s, 1, b)

\* SplitCount as len(s.split(' ')) would give it: one more than the blanks
SplitCountBySpace(s) == Cardinality({n \in 1..Len(s) : s[n] = " "}) + 1

\* len(s.split()): the number of maximal runs of non-blank characters
SplitCount(s) ==
    Cardinality({n \in 1..Len(s) :
        /\ s[n] \notin Whitespace
        /\ (n = 1 \/ s[n - 1] \in Whitespace)})

----------------------------------------------------------------------------
(* What a call gives: a value, or an exception raised *)

Returns(v) == [raised |-> FALSE, value |-> v]
Raises == [raised |-> TRUE, value |-> PyNone]

----------------------------------------------------------------------------
(* datetime.strptime(s, '%Y%m%d%H%M%S') and datetime.isoformat *)

\* c is a digit in lo..hi
DigitIn(c, lo, hi) == IsDigit(c) /\ DigitVal(c) \in lo..hi

\* The format's regular expression, one group per directive Y m d H M S:
\*   (\d\d\d\d)(1[0-2]|0[1-9]|[1-9])(3[0-1]|[1-2]\d|0[1-9]|[1-9]| [1-9])
\*   (2[0-3]|[0-1]\d|\d)([0-5]\d|\d)(6[0-1]|[0-5]\d|\d)
\* AltLen[k][a] is the length of the a-th alternative of group k.
AltLen == << <<4>>, <<2, 2, 1>>, <<2, 2, 2, 1, 2>>, <<2, 2, 1>>, <<2, 1>>, <<2, 2, 1>> >>

\* Text t (of length AltLen[k][a]) matches the a-th alternative of group k.
AltOk(k, a, t) ==
    IF k = 1 THEN \A n \in 1..4 : IsDigit(t[n])
    ELSE IF k = 2 THEN
        (CASE a = 1 -> t[1] = "1" /\ DigitIn(t[2], 0, 2)
           [] a = 2 -> t[1] = "0" /\ DigitIn(t[2], 1, 9)
           [] a = 3 -> DigitIn(t[1], 1, 9))
    ELSE IF k = 3 THEN
        (CASE a = 1 -> t[1] = "3" /\ DigitIn(t[2], 0, 1)
           [] a = 2 -> DigitIn(t[1], 1, 2) /\ IsDigit(t[2])
           [] a = 3 -> t[1] = "0" /\ DigitIn(t[2], 1, 9)
           [] a = 4 -> DigitIn(t[1], 1, 9)
           [] a = 5 -> t[1] = " " /\ DigitIn(t[2], 1, 9))
    ELSE IF k = 4 THEN
        (CASE a = 1 -> t[1] = "2" /\ DigitIn(t[2], 0, 3)
           [] a = 2 -> DigitIn(t[1], 0, 1) /\ IsDigit(t[2])
           [] a = 3 -> IsDigit(t[1]))
    ELSE IF k = 5 THEN
        (CASE a = 1 -> DigitIn(t[1], 0, 5) /\ IsDigit(t[2])
           [] a = 2 -> IsDigit(t[1]))
    ELSE
        (CASE a = 1 -> t[1] = "6" /\ DigitIn(t[2], 0, 1)
           [] a = 2 -> DigitIn(t[1], 0, 5) /\ IsDigit(t[2])
           [] a = 3 -> IsDigit(t[1]))

\* re.match of groups k.. at position pos of s, trying the alternatives of
\* group k from the a-th on, in order, and backtracking into them when the
\* groups after k do not match: [ok, groups (the texts matched), end].
RECURSIVE ReMatch(_, _, _, _)
ReMatch(s, pos, k, a) ==
    IF k > Len(AltLen) THEN [ok |-> TRUE, groups |-> <<>>, end |-> pos - 1]
    ELSE IF a > Len(AltLen[k]) THEN [ok |-> FALSE, groups |-> <<>>, end |-> 0]
    ELSE LET n == AltLen[k][a]
             t == SubSeq(s, pos, pos + n - 1)
             rest == ReMatch(s, pos + n, k + 1, 1)
         IN  IF pos + n - 1 <= Len(s) /\ AltOk(k, a, t) /\ rest.ok
             THEN [ok |-> TRUE, groups |-> <<t>> \o rest.groups, end |-> rest.end]
             ELSE ReMatch(s, pos, k, a + 1)

IsLeap(y) == y % 4 = 0 /\ (y % 100 # 0 \/ y % 400 = 0)

DaysInMonth(y, m) ==
    IF m = 2 THEN (IF IsLeap(y) THEN 29 ELSE 28)
    ELSE IF m \in {4, 6, 9, 11} THEN 30 ELSE 31

\* datetime(y, m, d, H, M, S) accepts these fields (else ValueError)
ValidDateTime(dt) ==
    /\ dt[1] \in 1..9999
    /\ dt[2] \in 1..12
    /\ dt[3] \in 1..DaysInMonth(dt[1], dt[2])
    /\ dt[4] \in 0..23
    /\ dt[5] \in 0..59
    /\ dt[6] \in 0..59

\* datetime.strptime(s, '%Y%m%d%H%M%S'): ValueError when the expression does
\* not match at the start of s, when text remains after the match, or when
\* the fields are no datetime; else the datetime <<y, m, d, H, M, S>>.
strptime(s) ==
    LET found == ReMatch(s, 1, 1, 1)
        dt == [n \in 1..6 |-> ToInt(found.groups[n])]
    IN  IF ~found.ok THEN Raises
        ELSE IF found.end # Len(s) THEN Raises
        ELSE IF ~ValidDateTime(dt) THEN Raises
        ELSE Returns(dt)

\* dt.isoformat() of a datetime without microseconds: YYYY-MM-DDTHH:MM:SS
isoformat(dt) ==
    ZeroPad(dt[1], 4) \o <<"-">> \o ZeroPad(dt[2], 2) \o <<"-">> \o ZeroPad(dt[3], 2)
    \o <<"T">> \o ZeroPad(dt[4], 2) \o <<":">> \o ZeroPad(dt[5], 2)
    \o <<":">> \o ZeroPad(dt[6], 2)

----------------------------------------------------------------------------
(* PDFtoJSONConverter.__init__ and extract_metadata *)

F_Title == <<"T", "i", "t", "l", "e">>
F_Author == <<"A", "u", "t", "h", "o", "r">>
F_Subject == <<"S", "u", "b", "j", "e", "c", "t">>
F_Keywords == <<"K", "e", "y", "w", "o", "r", "d", "s">>
F_Creator == <<"C", "r", "e", "a", "t", "o", "r">>
F_Producer == <<"P", "r", "o", "d", "u", "c", "e", "r">>
F_CreationDate == <<"C", "r", "e", "a", "t", "i", "o", "n", "D", "a", "t", "e">>
F_ModDate == <<"M", "o", "d", "D", "a", "t", "e">>

metadata_fields ==
    <<F_Title, F_Author, F_Subject, F_Keywords,
      F_Creator, F_Producer, F_CreationDate, F_ModDate>>

S_Date == <<"D", "a", "t", "e">>
S_DPrefix == <<"D", ":">>

\* The body of the loop for one field that is in raw_meta: the value stored
\* under meta[field], or the exception of calling startswith on a value
\* that is no text.
MetaValue(field, raw) ==
    IF Contains(field, S_Date)
    THEN IF ~IsStr(raw) THEN Raises
         ELSE IF StartsWith(raw.str, S_DPrefix)
         THEN LET date_str == SliceFrom(raw.str, 2)
                  dt == strptime(SliceTo(date_str, 14))
              IN  IF dt.raised THEN Returns(raw)
                  ELSE Returns(PyStr(isoformat(dt.value)))
         ELSE Returns(raw)
    ELSE Returns(raw)

\* MetaLoop as a copy of every entry of the document's metadata
MetaLoopCopyAll(raw_meta, n, meta) == Returns(raw_meta)

\* The loop over self.metadata_fields from its n-th field on, meta being
\* what the fields before it gave.
RECURSIVE MetaLoop(_, _, _)
MetaLoop(raw_meta, n, meta) ==
    IF n > Len(metadata_fields) THEN Returns(meta)
    ELSE LET field == metadata_fields[n]
         IN  IF HasKey(raw_meta, field)
             THEN LET v == MetaValue(field, Get(raw_meta, field))
                  IN  IF v.raised THEN Raises
                      ELSE MetaLoop(raw_meta, n + 1, DictSet(meta, field, v.value))
             ELSE MetaLoop(raw_meta, n + 1, meta)

\* extract_metadata(pdf), pdf.metadata being a dict or None
extract_metadata(doc) ==
    LET raw_meta == IF Truthy(doc.metadata) THEN doc.metadata ELSE PyDict(<<>>)
    IN  MetaLoop(raw_meta, 1, PyDict(<<>>))

----------------------------------------------------------------------------
(* extract_page_content *)

K_text == <<"t", "e", "x", "t">>
K_tables == <<"t", "a", "b", "l", "e", "s">>
K_images == <<"i", "m", "a", "g", "e", "s">>
K_layout == <<"l", "a", "y", "o", "u", "t">>
K_data == <<"d", "a", "t", "a">>
K_word_count == <<"w", "o", "r", "d", "_", "c", "o", "u", "n", "t">>
K_avg_word_length == <<"a", "v", "g", "_", "w", "o", "r", "d", "_", "l", "e", "n", "g", "t", "h">>

\* a / b on two ints: a float, or ZeroDivisionError
TrueDiv(a, b) == IF b = 0 THEN Raises ELSE Returns(PyFloat(a, b))

\* sum(len(w['text']) for w in words), words a sequence of word dicts
RECURSIVE SumWordLengths(_)
SumWordLengths(words) ==
    IF Len(words) = 0 THEN 0
    ELSE Len(Get(words[1], K_text).str) + SumWordLengths(Tail(words))

\* page.extract_text() or ""
PageText(page) == IF Truthy(page.text) THEN page.text ELSE PyStr(<<>>)

\* content["tables"]: [] unless `if tables:`, then one {"data": table} each
PageTables(page) ==
    IF Truthy(page.tables)
    THEN PyList([n \in 1..Len(page.tables.list) |->
                    PyDict(<< <<K_data, page.tables.list[n]>> >>)])
    ELSE PyList(<<>>)

\* content["images"]: the initial value, which nothing assigns again
PageImages(page) == PyBool(FALSE)

\* content["layout"]: [] unless `if words:`, then the two statistics
PageLayout(page) ==
    IF Truthy(page.words)
    THEN LET words == page.words.list
             avg == TrueDiv(SumWordLengths(words), Len(words))
         IN  IF avg.raised THEN Raises
             ELSE Returns(PyDict(<< <<K_word_count, PyInt(Len(words))>>,
                                    <<K_avg_word_length, avg.value>> >>))
    ELSE Returns(PyList(<<>>))

\* extract_page_content(page). page.fault names the capability of the page
\* handle that raises when called ("none": none does).
extract_page_content(page) ==
    IF page.fault \in {"extract_text", "extract_tables", "extract_words"}
    THEN Raises
    ELSE LET layout == PageLayout(page)
         IN  IF layout.raised THEN Raises
             ELSE Returns(PyDict(<< <<K_text, PageText(page)>>,
                                    <<K_tables, PageTables(page)>>,
                                    <<K_images, PageImages(page)>>,
                                    <<K_layout, layout.value>> >>))

----------------------------------------------------------------------------
(* convert: the pieces of its body *)

K_metadata == <<"m", "e", "t", "a", "d", "a", "t", "a">>
K_pages == <<"p", "a", "g", "e", "s">>
K_stats == <<"s", "t", "a", "t", "s">>
K_page_number == <<"p", "a", "g", "e", "_", "n", "u", "m", "b", "e", "r">>
K_dimensions == <<"d", "i", "m", "e", "n", "s", "i", "o", "n", "s">>
K_width == <<"w", "i", "d", "t", "h">>
K_height == <<"h", "e", "i", "g", "h", "t">>
K_content == <<"c", "o", "n", "t", "e", "n", "t">>
K_total_pages == <<"t", "o", "t", "a", "l", "_", "p", "a", "g", "e", "s">>
K_total_words == <<"t", "o", "t", "a", "l", "_", "w", "o", "r", "d", "s">>

\* result = {"metadata": {}, "pages": [], "stats": {}}
EmptyResult ==
    PyDict(<< <<K_metadata, PyDict(<<>>)>>,
              <<K_pages, PyList(<<>>)>>,
              <<K_stats, PyDict(<<>>)>> >>)

\* PageNumber as enumerate(pdf.pages) without start=1 would give it
PageNumberFromZero(n) == n - 1

\* enumerate(pdf.pages, start=1): the number given to the n-th page
PageNumber(n) == n

\* page_data for the n-th page, or the exception of extracting its content
PageData(n, page) ==
    LET content == extract_page_content(page)
    IN  IF content.raised THEN Raises
        ELSE Returns(PyDict(<<
                <<K_page_number, PyInt(PageNumber(n))>>,
                <<K_dimensions, PyDict(<< <<K_width, page.width>>,
                                          <<K_height, page.height>> >>)>>,
                <<K_content, content.value>> >>))

\* result["pages"].append(page_data)
AppendPage(res, page_data) ==
    DictSet(res, K_pages, PyList(Append(Get(res, K_pages).list, page_data)))

\* len(p["content"]["text"].split())
PageWords(p) == SplitCount(Get(Get(p, K_content), K_text).str)

\* sum(len(p["content"]["text"].split()) for p in pages)
RECURSIVE TotalWords(_)
TotalWords(pages) ==
    IF Len(pages) = 0 THEN 0 ELSE PageWords(pages[1]) + TotalWords(Tail(pages))

\* result["stats"]
Stats(doc, res) ==
    PyDict(<< <<K_total_pages, PyInt(Len(doc.pages))>>,
              <<K_total_words, PyInt(TotalWords(Get(res, K_pages).list))>> >>)

\* ConvertExcept as an except clause that returns the record built so far
ConvertExceptPartial(res) == res

\* What convert returns from its except clause; res is the local result,
\* with whatever was put in it before the exception.
ConvertExcept(res) == PyNone

----------------------------------------------------------------------------
(* json.dumps(obj, ensure_ascii=False, indent=indent), and json.loads, by *)
(* which the properties read a text back                                *)

L_true == <<"t", "r", "u", "e">>
L_false == <<"f", "a", "l", "s", "e">>
L_null == <<"n", "u", "l", "l">>

\* A character inside a JSON string; with ensure_ascii=False only the
\* quote, the backslash and the control characters are escaped.
EscapeChar(c) ==
    CASE c = "\"" -> <<"\\", "\"">>
      [] c = "\\" -> <<"\\", "\\">>
      [] c = "\n" -> <<"\\", "n">>
      [] c = "\r" -> <<"\\", "r">>
      [] c = "\t" -> <<"\\", "t">>
      [] OTHER -> <<c>>

RECURSIVE EscapeChars(_)
EscapeChars(s) ==
    IF Len(s) = 0 THEN <<>> ELSE EscapeChar(s[1]) \o EscapeChars(Tail(s))

JsonString(s) == <<"\"">> \o EscapeChars(s) \o <<"\"">>

\* The digits after the point of r/d (r < d), for a quotient whose decimal
\* expansion ends within `fuel` digits.
RECURSIVE FracDigits(_, _, _)
FracDigits(r, d, fuel) ==
    IF r = 0 \/ fuel = 0 THEN <<>>
    ELSE <<Digits[((r * 10) \div d) + 1]>> \o FracDigits((r * 10) % d, d, fuel - 1)

\* float.__repr__ of n/d >= 0: "612.0", "3.5", "3.25"
FloatRepr(n, d) ==
    IntToChars(n \div d) \o <<".">>
    \o (IF n % d = 0 THEN <<"0">> ELSE FracDigits(n % d, d, 16))

RECURSIVE Spaces(_)
Spaces(n) == IF n <= 0 THEN <<>> ELSE <<" ">> \o Spaces(n - 1)

\* The encoder's newline_indent at a nesting level: nothing when indent is
\* None, else a line break and indent * level blanks.
NewlineIndent(indent, level) ==
    IF IsNone(indent) THEN <<>> ELSE <<"\n">> \o Spaces(indent.int * level)

\* item_separator: ', ' when indent is None, else ','
ItemSeparator(indent) == IF IsNone(indent) THEN <<",", " ">> ELSE <<",">>

KeySeparator == <<":", " ">>

RECURSIVE JsonDumps(_, _, _)
RECURSIVE JsonItems(_, _, _, _)
RECURSIVE JsonMembers(_, _, _, _)

\* The items of a list from the n-th on, at nesting level `level`
JsonItems(items, n, indent, level) ==
    IF n > Len(items) THEN <<>>
    ELSE (IF n = 1 THEN <<>> ELSE ItemSeparator(indent))
         \o NewlineIndent(indent, level)
         \o JsonDumps(items[n], indent, level)
         \o JsonItems(items, n + 1, indent, level)

\* The key: value entries of a dict from the n-th on
JsonMembers(entries, n, indent, level) ==
    IF n > Len(entries) THEN <<>>
    ELSE (IF n = 1 THEN <<>> ELSE ItemSeparator(indent))
         \o NewlineIndent(indent, level)
         \o JsonString(entries[n][1]) \o KeySeparator
         \o JsonDumps(entries[n][2], indent, level)
         \o JsonMembers(entries, n + 1, indent, level)

\* The text of value v; indent is None or an int, level the nesting level.
JsonDumps(v, indent, level) ==
    IF IsNone(v) THEN L_null
    ELSE IF IsBool(v) THEN (IF v.bool THEN L_true ELSE L_false)
    ELSE IF IsInt(v) THEN IntToChars(v.int)
    ELSE IF IsFloat(v) THEN FloatRepr(v.float[1], v.float[2])
    ELSE IF IsStr(v) THEN JsonString(v.str)
    ELSE IF IsList(v) THEN
        (IF Len(v.list) = 0 THEN <<"[", "]">>
         ELSE <<"[">> \o JsonItems(v.list, 1, indent, level + 1)
              \o NewlineIndent(indent, level) \o <<"]">>)
    ELSE
        (IF Len(v.dict) = 0 THEN <<"{", "}">>
         ELSE <<"{">> \o JsonMembers(v.dict, 1, indent, level + 1)
              \o NewlineIndent(indent, level) \o <<"}">>)

\* json.dumps(data, ensure_ascii=False, indent=indent)
json_dumps(data, indent) == JsonDumps(data, indent, 0)

\* The decoder: skip blanks from position p on
RECURSIVE SkipBlanks(_, _)
SkipBlanks(s, p) ==
    IF p <= Len(s) /\ s[p] \in Whitespace THEN SkipBlanks(s, p + 1) ELSE p

\* The end of the run of digits that starts at p (p - 1 when there is none)
RECURSIVE DigitsEnd(_, _)
DigitsEnd(s, p) ==
    IF p <= Len(s) /\ IsDigit(s[p]) THEN DigitsEnd(s, p + 1) ELSE p - 1

RECURSIVE Pow10(_)
Pow10(n) == IF n = 0 THEN 1 ELSE 10 * Pow10(n - 1)

\* A number at p: an int, or a float when a fraction follows
ParseNumber(s, p) ==
    LET e == DigitsEnd(s, p)
    IN  IF e < Len(s) /\ s[e + 1] = "."
        THEN LET f == DigitsEnd(s, e + 2)
             IN  [val |-> PyFloat(ToInt(SubSeq(s, p, e) \o SubSeq(s, e + 2, f)),
                                  Pow10(f - e - 1)),
                  next |-> f + 1]
        ELSE [val |-> PyInt(ToInt(SubSeq(s, p, e))), next |-> e + 1]

\* The characters of a string whose opening quote is before p
RECURSIVE ParseString(_, _, _)
ParseString(s, p, acc) ==
    IF s[p] = "\"" THEN [val |-> acc, next |-> p + 1]
    ELSE IF s[p] = "\\"
    THEN LET c == CASE s[p + 1] = "n" -> "\n"
                    [] s[p + 1] = "r" -> "\r"
                    [] s[p + 1] = "t" -> "\t"
                    [] OTHER -> s[p + 1]
         IN  ParseString(s, p + 2, Append(acc, c))
    ELSE ParseString(s, p + 1, Append(acc, s[p]))

RECURSIVE ParseValue(_, _)
RECURSIVE ParseElements(_, _, _)
RECURSIVE ParseMembers(_, _, _)

\* The elements of an array, p being at the first character of the next one
ParseElements(s, p, acc) ==
    LET v == ParseValue(s, p)
        q == SkipBlanks(s, v.next)
    IN  IF s[q] = ","
        THEN ParseElements(s, SkipBlanks(s, q + 1), Append(acc, v.val))
        ELSE [val |-> PyList(Append(acc, v.val)), next |-> q + 1]

\* The members of an object, p being at the quote of the next key
ParseMembers(s, p, acc) ==
    LET k == ParseString(s, p + 1, <<>>)
        c == SkipBlanks(s, k.next)
        v == ParseValue(s, SkipBlanks(s, c + 1))
        q == SkipBlanks(s, v.next)
    IN  IF s[q] = ","
        THEN ParseMembers(s, SkipBlanks(s, q + 1), Append(acc, <<k.val, v.val>>))
        ELSE [val |-> PyDict(Append(acc, <<k.val, v.val>>)), next |-> q + 1]

\* The value at p (after blanks) and the position after it
ParseValue(s, p0) ==
    LET p == SkipBlanks(s, p0)
        c == s[p]
    IN  IF c = "{" THEN
            (LET q == SkipBlanks(s, p + 1)
             IN  IF s[q] = "}" THEN [val |-> PyDict(<<>>), next |-> q + 1]
                 ELSE ParseMembers(s, q, <<>>))
        ELSE IF c = "[" THEN
            (LET q == SkipBlanks(s, p + 1)
             IN  IF s[q] = "]" THEN [val |-> PyList(<<>>), next |-> q + 1]
                 ELSE ParseElements(s, q, <<>>))
        ELSE IF c = "\"" THEN
            (LET r == ParseString(s, p + 1, <<>>)
             IN  [val |-> PyStr(r.val), next |-> r.next])
        ELSE IF c = "t" THEN [val |-> PyBool(TRUE), next |-> p + 4]
        ELSE IF c = "f" THEN [val |-> PyBool(FALSE), next |-> p + 5]
        ELSE IF c = "n" THEN [val |-> PyNone, next |-> p + 4]
        ELSE ParseNumber(s, p)

\* json.loads(text)
json_loads(text) == ParseValue(text, 1).val

----------------------------------------------------------------------------
(* save_as_json *)

\* SaveText as json.dump without indent=2 would write it
SaveTextCompact(data) == json_dumps(data, PyNone)

\* The text json.dump writes: json.dump(data, f, ensure_ascii=False, indent=2)
SaveText(data) == json_dumps(data, PyInt(2))

\* SaveExcept as an except clause that reports success
SaveExceptTrue == PyBool(TRUE)

\* What save_as_json returns from its except clause
SaveExcept == PyBool(FALSE)

\* The body of the try block: the file's content afterwards, or an exception
\* with the file as the failed call left it. fault "open": open() raises
\* (permission denied, invalid path) and the file is untouched; fault
\* "write": open() has created or truncated the file and the write raises
\* (disk full) after `kept` characters.
SaveTry(data, file, fault, kept) ==
    CASE fault = "none" ->
            [raised |-> FALSE, file |-> PyStr(SaveText(data))]
      [] fault = "open" ->
            [raised |-> TRUE, file |-> file]
      [] fault = "write" ->
            [raised |-> TRUE, file |-> PyStr(SliceTo(SaveText(data), kept))]

\* save_as_json(data, output_path): [value (the bool returned), file, printed]
save_as_json(data, file, fault, kept) ==
    LET try == SaveTry(data, file, fault, kept)
    IN  IF try.raised
        THEN [value |-> SaveExcept, file |-> try.file,
              printed |-> <<[kind |-> "error_saving", text |-> <<>>]>>]
        ELSE [value |-> PyBool(TRUE), file |-> try.file, printed |-> <<>>]

----------------------------------------------------------------------------
(* The documents, command lines and disks of the model *)

MaxPages == 3
MaxMetaKeys == 2

F_Trapped == <<"T", "r", "a", "p", "p", "e", "d">>
F_SourceModified == <<"S", "o", "u", "r", "c", "e", "M", "o", "d", "i", "f", "i", "e", "d">>

\* The names a document's information dictionary may hold: the recognized
\* ones and two that are not.
SourceFields == metadata_fields \o <<F_Trapped, F_SourceModified>>

T_Report == <<"R", "e", "p", "o", "r", "t">>
T_Date == <<"D", ":", "2", "0", "2", "3", "0", "1", "1", "5", "1", "2", "0", "0", "0", "0">>

\* Date texts: a prefix, then year, month, day, hour, minute, second and a
\* suffix, each from a few texts, some of them short or out of range.
DateYears == {<<"2", "0", "2", "3">>, <<"2", "0", "2", "4">>}
DateMonths == {<<"0", "2">>, <<"1", "2">>, <<"1", "3">>, <<"2">>}
DateDays == {<<"2", "9">>, <<"3", "1">>, <<" ", "5">>, <<"3">>}
DateHours == {<<"1", "2">>, <<"7">>}
DateMinutes == {<<"3", "0">>, <<"5">>}
DateSeconds == {<<"5", "9">>, <<"6", "0">>, <<"5">>, <<>>}
DateSuffixes == {<<>>, <<"Z">>}

DateTexts ==
    {S_DPrefix \o y \o m \o d \o h \o mi \o sec \o z :
        y \in DateYears, m \in DateMonths, d \in DateDays, h \in DateHours,
        mi \in DateMinutes, sec \in DateSeconds, z \in DateSuffixes}
    \cup {<<"D", ":", "2", "0", "2", "3", "0", "1", "1", "5", "1", "2", "0", "0", "0">>,
          <<"D", ":", "2", "0", "2", "3", "0", "1", " ", "5", "1", "2", "0", "0", "0", "0">>,
          <<>>,
          <<"D", ":">>,
          <<"D", ":", "2", "0", "2", "3">>,
          <<"2", "0", "2", "3", "0", "1", "1", "5", "1", "2", "0", "0", "0", "0">>,
          <<"d", ":", "2", "0", "2", "3", "0", "1", "1", "5", "1", "2", "0", "0", "0", "0">>,
          <<"D", ":", "0", "0", "0", "0", "0", "1", "1", "5", "1", "2", "0", "0", "0", "0">>,
          <<"D", ":", "2", "0", "2", "3", "0", "1", "1", "5", "2", "4", "0", "0", "0", "0">>,
          <<"D", ":", "2", "0", "2", "3", "0", "1", "1", "5", "1", "2", "6", "0", "0", "0">>,
          <<"D", ":", "2", "0", "2", "3", "0", "1", "1", "5", "1", "2", "0", "0", "0", "0", "1", "2">>,
          <<"D", ":", "2", "0", "2", "3", "-", "0", "1", "-", "1", "5">>,
          <<"y", "e", "s", "t", "e", "r", "d", "a", "y">>,
          <<"D", ":", "2", "0", "2", "3", "0", "1", "1", "5", "1", "2", "0", "0", "0", "0">>,
          <<"D", ":", "2", "0", "2", "4", "0", "2", "2", "9", "2", "3", "5", "9", "5", "9", "+", "0", "1", "'", "0", "0", "'">>}

\* A value that is no text (pdfplumber resolves numbers, lists, ...)
NonText == PyInt(42)

\* The values a document may hold under a name
FieldValues(field) ==
    IF Contains(field, S_Date) THEN {PyStr(T_Date), NonText}
    ELSE IF field = F_SourceModified THEN {PyStr(T_Date)}
    ELSE {PyStr(T_Report), NonText}

\* The dicts with the names of the set `names`, in the order of SourceFields
RECURSIVE DictsOver(_, _)
DictsOver(names, n) ==
    IF n > Len(SourceFields) THEN {<<>>}
    ELSE LET rest == DictsOver(names, n + 1)
             field == SourceFields[n]
         IN  IF field \in names
             THEN {<< <<field, v>> >> \o r : v \in FieldValues(field), r \in rest}
             ELSE rest

SourceFieldSet == {SourceFields[n] : n \in 1..Len(SourceFields)}

\* pdf.metadata: None, or a dict of at most MaxMetaKeys names, or one date
\* field with any of the date texts
RawMetas ==
    {PyNone}
    \cup UNION {{PyDict(d) : d \in DictsOver(names, 1)} :
                  names \in {ns \in SUBSET SourceFieldSet : Cardinality(ns) <= MaxMetaKeys}}
    \cup {PyDict(<< <<f, PyStr(d)>> >>) : f \in {F_CreationDate, F_ModDate}, d \in DateTexts}

\* The scenario of the documentation: a title and a creation date
ReportMeta == PyDict(<< <<F_Title, PyStr(T_Report)>>, <<F_CreationDate, PyStr(T_Date)>> >>)

T_TwoWords == <<"a", "b", " ", "c", "d">>
T_Lines == <<" ", "a", "\n", "b", "c", " ", " ", "d", "\n">>
T_Blank == <<" ", " ">>

W_ab == PyDict(<< <<K_text, PyStr(<<"a", "b">>)>> >>)
W_abcd == PyDict(<< <<K_text, PyStr(<<"a", "b", "c", "d">>)>> >>)
W_a == PyDict(<< <<K_text, PyStr(<<"a">>)>> >>)

\* What the capabilities of a page handle may give
PageTexts == {PyNone, PyStr(<<>>), PyStr(T_TwoWords), PyStr(T_Lines), PyStr(T_Blank)}
PageWordLists == {PyList(<<>>), PyList(<<W_ab>>), PyList(<<W_ab, W_abcd>>), PyList(<<W_a, W_ab>>)}
PageTableLists ==
    {PyList(<<>>),
     PyList(<< PyList(<< PyList(<<PyStr(<<"a">>), PyNone>>) >>) >>)}
PageImageLists == {PyList(<<>>), PyList(<<PyDict(<<>>)>>)}
PageFaults == {"none", "extract_text", "extract_tables", "extract_words"}

Page(text, tables, words, images, fault) ==
    [text |-> text, tables |-> tables, words |-> words, images |-> images,
     width |-> PyFloat(612, 1), height |-> PyFloat(1585, 2), fault |-> fault]

\* Every page handle of the model
PageHandles ==
    {Page(text, tables, words, images, fault) :
        text \in PageTexts, tables \in PageTableLists, words \in PageWordLists,
        images \in PageImageLists, fault \in PageFaults}

\* The page handles that documents of several pages are made of
PlainPage == Page(PyStr(T_TwoWords), PyList(<<>>), PyList(<<W_ab, W_abcd>>), PyList(<<>>), "none")
EmptyPage == Page(PyNone, PyList(<<>>), PyList(<<>>), PyList(<<>>), "none")
ImagePage == Page(PyStr(T_Lines), PyList(<<>>), PyList(<<W_a>>), PyList(<<PyDict(<<>>)>>), "none")
FaultyPage == Page(PyStr(T_TwoWords), PyList(<<>>), PyList(<<W_ab>>), PyList(<<>>), "extract_words")
FewPages == {PlainPage, EmptyPage, ImagePage, FaultyPage}

RECURSIVE SeqsUpTo(_, _)
SeqsUpTo(S, n) ==
    IF n = 0 THEN {<<>>}
    ELSE LET shorter == SeqsUpTo(S, n - 1)
         IN  shorter \cup {Append(q, x) : q \in {r \in shorter : Len(r) = n - 1}, x \in S}

Document(opens, metadata, pages) ==
    [opens |-> opens, metadata |-> metadata, pages |-> pages]

\* A path pdfplumber.open cannot open
NoDocument == Document(FALSE, PyNone, <<>>)

Arguments == [output : BOOLEAN, pretty : BOOLEAN]

\* fault: what goes wrong on the output path; kept: how much of the text a
\* failed write leaves in the file
Disks ==
    {[fault |-> "none", kept |-> 0], [fault |-> "open", kept |-> 0],
     [fault |-> "write", kept |-> 0], [fault |-> "write", kept |-> 5]}
GoodDisk == [fault |-> "none", kept |-> 0]

----------------------------------------------------------------------------
(* main: the program as a state machine *)

\* Before main calls convert. The inputs are fixed for the run.
Begin ==
    /\ pc = "start"
    /\ result = EmptyResult
    /\ i = 1
    /\ ret = PyNone
    /\ outfile = PyNone
    /\ stdout = <<>>
    /\ exitCode = 0

\* Every command line and disk, on documents of up to MaxPages pages
InitPages ==
    /\ pdf \in {NoDocument} \cup
               {Document(TRUE, ReportMeta, pages) : pages \in SeqsUpTo(FewPages, MaxPages)}
    /\ args \in Arguments
    /\ disk \in Disks
    /\ Begin

\* Every page handle, in a document of one or two pages
InitPageHandles ==
    /\ pdf \in {Document(TRUE, ReportMeta, <<page>>) : page \in PageHandles}
               \cup {Document(TRUE, ReportMeta, <<PlainPage, page>>) :
                        page \in {h \in PageHandles : h.fault # "none"}}
    /\ args \in {a \in Arguments : a.output}
    /\ disk = GoodDisk
    /\ Begin

\* Every metadata dict, in a document of one page
InitMetadata ==
    /\ pdf \in {Document(TRUE, metadata, <<PlainPage>>) : metadata \in RawMetas}
    /\ args = [output |-> FALSE, pretty |-> FALSE]
    /\ disk = GoodDisk
    /\ Begin

Init == InitPages \/ InitPageHandles \/ InitMetadata

Printed(kind, text) == [kind |-> kind, text |-> text]

\* convert's except clause: print the error, return None
Except ==
    /\ stdout' = Append(stdout, Printed("error_processing", <<>>))
    /\ ret' = ConvertExcept(result)
    /\ pc' = "returned"

\* main calls convert, which builds the empty result and opens the file
Open ==
    /\ pc = "start"
    /\ IF pdf.opens
       THEN /\ pc' = "metadata"
            /\ UNCHANGED <<ret, stdout>>
       ELSE Except
    /\ result' = EmptyResult
    /\ UNCHANGED <<pdf, args, disk, i, outfile, exitCode>>

\* result["metadata"] = self.extract_metadata(pdf)
ConvertMetadata ==
    /\ pc = "metadata"
    /\ LET meta == extract_metadata(pdf)
       IN  IF meta.raised
           THEN Except /\ UNCHANGED <<result, i>>
           ELSE /\ result' = DictSet(result, K_metadata, meta.value)
                /\ i' = 1
                /\ pc' = "pages"
                /\ UNCHANGED <<ret, stdout>>
    /\ UNCHANGED <<pdf, args, disk, outfile, exitCode>>

\* One turn of the loop over pdf.pages
ConvertPage ==
    /\ pc = "pages"
    /\ i <= Len(pdf.pages)
    /\ LET page_data == PageData(i, pdf.pages[i])
       IN  IF page_data.raised
           THEN Except /\ UNCHANGED <<result, i>>
           ELSE /\ result' = AppendPage(result, page_data.value)
                /\ i' = i + 1
                /\ UNCHANGED <<pc, ret, stdout>>
    /\ UNCHANGED <<pdf, args, disk, outfile, exitCode>>

\* After the loop: result["stats"] = ...; return result
ConvertStats ==
    /\ pc = "pages"
    /\ i > Len(pdf.pages)
    /\ result' = DictSet(result, K_stats, Stats(pdf, result))
    /\ ret' = result'
    /\ pc' = "returned"
    /\ UNCHANGED <<pdf, args, disk, i, outfile, stdout, exitCode>>

\* if result is None: sys.exit(1)
MainFailed ==
    /\ pc = "returned"
    /\ IsNone(ret)
    /\ pc' = "exit"
    /\ exitCode' = 1
    /\ UNCHANGED <<pdf, args, disk, result, i, ret, outfile, stdout>>

\* if args.output: save, then print the confirmation or sys.exit(1)
MainSave ==
    /\ pc = "returned"
    /\ ~IsNone(ret)
    /\ args.output
    /\ LET saved == save_as_json(ret, outfile, disk.fault, disk.kept)
       IN  /\ outfile' = saved.file
           /\ IF Truthy(saved.value)
              THEN /\ stdout' = Append(stdout \o saved.printed, Printed("saved", <<>>))
                   /\ exitCode' = 0
              ELSE /\ stdout' = stdout \o saved.printed
                   /\ exitCode' = 1
    /\ pc' = "exit"
    /\ UNCHANGED <<pdf, args, disk, result, i, ret>>

\* elif args.pretty: print(json.dumps(result, ensure_ascii=False, indent=2))
MainPrintPretty ==
    /\ pc = "returned"
    /\ ~IsNone(ret)
    /\ ~args.output
    /\ args.pretty
    /\ stdout' = Append(stdout, Printed("json", json_dumps(ret, PyInt(2))))
    /\ pc' = "exit"
    /\ exitCode' = 0
    /\ UNCHANGED <<pdf, args, disk, result, i, ret, outfile>>

\* else: print(json.dumps(result, ensure_ascii=False))
MainPrintCompact ==
    /\ pc = "returned"
    /\ ~IsNone(ret)
    /\ ~args.output
    /\ ~args.pretty
    /\ stdout' = Append(stdout, Printed("json", json_dumps(ret, PyNone)))
    /\ pc' = "exit"
    /\ exitCode' = 0
    /\ UNCHANGED <<pdf, args, disk, result, i, ret, outfile>>

Next ==
    \/ Open
    \/ ConvertMetadata
    \/ ConvertPage
    \/ ConvertStats
    \/ MainFailed
    \/ MainSave
    \/ MainPrintPretty
    \/ MainPrintCompact

Spec == Init /\ [][Next]_vars

----------------------------------------------------------------------------
(* Views of the state used by the properties *)

\* convert has returned to main
Returned == pc \in {"returned", "exit"}

\* convert has returned a record
Succeeded == Returned /\ ~IsNone(ret)

RetPages == Get(ret, K_pages).list
RetStats == Get(ret, K_stats)
RetContent(n) == Get(RetPages[n], K_content)

\* The document's metadata dict, empty when it has none
RawMeta == IF IsDict(pdf.metadata) THEN pdf.metadata ELSE PyDict(<<>>)

RecognizedNames ==
    {F_Title, F_Author, F_Subject, F_Keywords, F_Creator, F_Producer,
     F_CreationDate, F_ModDate}
DateNames == {F_CreationDate, F_ModDate}

\* Some page's extraction raises
SomePageFaulty == \E n \in 1..Len(pdf.pages) : pdf.pages[n].fault # "none"

\* A date field holds a value that is no text
DateFieldNotText ==
    \E f \in DateNames : HasKey(RawMeta, f) /\ ~IsStr(Get(RawMeta, f))

RECURSIVE SumOver(_, _)
SumOver(f, n) == IF n = 0 THEN 0 ELSE f[n] + SumOver(f, n - 1)

\* The number of whitespace-delimited tokens of s, by a scan from the left
RECURSIVE TokensFrom(_, _, _)
TokensFrom(s, p, inToken) ==
    IF p > Len(s) THEN 0
    ELSE IF s[p] \in {" ", "\n", "\t", "\r"} THEN TokensFrom(s, p + 1, FALSE)
    ELSE (IF inToken THEN 0 ELSE 1) + TokensFrom(s, p + 1, TRUE)

\* The text a page's extraction gave, "" when it gave none
ExtractedText(page) == IF IsStr(page.text) THEN page.text.str ELSE <<>>

----------------------------------------------------------------------------
(* Properties *)

\* C1: when convert succeeds on a document of N pages, the record has N
\* pages, the k-th has page_number k, and stats.total_pages is len(pages).
PagesNumberedInOrder ==
    Succeeded =>
        /\ Len(RetPages) = Len(pdf.pages)
        /\ \A k \in 1..Len(RetPages) : Get(RetPages[k], K_page_number) = PyInt(k)
        /\ Get(RetStats, K_total_pages) = PyInt(Len(RetPages))

\* C1's case: a successful conversion of a document of MaxPages pages
PagesNumberedWitness ==
    Succeeded /\ Len(pdf.pages) = MaxPages /\ Len(RetPages) = MaxPages

\* C2: when the file does not open, or metadata or any page's extraction
\* raises, main receives None; a record it receives is never partial.
ConvertFailsAsAUnit ==
    Returned =>
        /\ (~pdf.opens \/ DateFieldNotText \/ SomePageFaulty) => IsNone(ret)
        /\ ~IsNone(ret) =>
              /\ Len(RetPages) = Len(pdf.pages)
              /\ Keys(RetStats) = {K_total_pages, K_total_words}

\* C2's case: the last page raised after the pages before it were appended
ConvertFailsWitness ==
    /\ Returned
    /\ IsNone(ret)
    /\ Len(pdf.pages) >= 2
    /\ pdf.pages[Len(pdf.pages)].fault # "none"
    /\ Len(Get(result, K_pages).list) = Len(pdf.pages) - 1

\* A raw date text of the form D:YYYYMMDDHHMMSS...: the prefix, then at
\* least 14 digits that are a calendar date and a time of day.
MatchesDatePattern(s) ==
    /\ Len(s) >= 16
    /\ s[1] = "D" /\ s[2] = ":"
    /\ \A n \in 3..16 : IsDigit(s[n])
    /\ LET num(a, b) == SumOver([n \in 1..(b - a + 1) |->
                                   DigitVal(s[b - n + 1]) * Pow10(n - 1)], b - a + 1)
       IN  /\ num(3, 6) >= 1
           /\ num(7, 8) \in 1..12
           /\ num(9, 10) \in 1..DaysInMonth(num(3, 6), num(7, 8))
           /\ num(11, 12) <= 23
           /\ num(13, 14) <= 59
           /\ num(15, 16) <= 59

\* The ISO-8601 text of the instant that D:YYYYMMDDHHMMSS names
IsoOfPattern(s) ==
    <<s[3], s[4], s[5], s[6], "-", s[7], s[8], "-", s[9], s[10], "T",
      s[11], s[12], ":", s[13], s[14], ":", s[15], s[16]>>

\* C3: a date field whose text matches D:YYYYMMDDHHMMSS... is emitted as the
\* ISO-8601 text of the same instant, every other text unchanged.
DatesNormalizedOrUnchanged ==
    pc = "pages" =>
        \A f \in DateNames :
            (HasKey(RawMeta, f) /\ IsStr(Get(RawMeta, f))) =>
                Get(Get(result, K_metadata), f) =
                    IF MatchesDatePattern(Get(RawMeta, f).str)
                    THEN PyStr(IsoOfPattern(Get(RawMeta, f).str))
                    ELSE Get(RawMeta, f)

\* The part of C3 the code keeps: a text that matches is normalized, and a
\* text without the D: prefix is unchanged.
MatchingDatesNormalized ==
    pc = "pages" =>
        \A f \in DateNames :
            (HasKey(RawMeta, f) /\ IsStr(Get(RawMeta, f))) =>
                LET s == Get(RawMeta, f).str
                    out == Get(Get(result, K_metadata), f)
                IN  /\ MatchesDatePattern(s) => out = PyStr(IsoOfPattern(s))
                    /\ ~StartsWith(s, S_DPrefix) => out = PyStr(s)

\* C4: extract_metadata never makes convert fail: when the file opens and
\* no page raises, convert returns a record whatever the metadata holds.
MetadataNeverFailsConvert ==
    (Returned /\ pdf.opens /\ ~SomePageFaulty) => ~IsNone(ret)

\* C5: a page with no words has the empty mapping as layout; a page with
\* words has word_count and avg_word_length = sum of lengths / word_count.
LayoutOfWords ==
    Succeeded =>
        \A n \in 1..Len(RetPages) :
            LET words == pdf.pages[n].words.list
                total == SumOver([k \in 1..Len(words) |->
                                    Len(Get(words[k], K_text).str)], Len(words))
            IN  Get(RetContent(n), K_layout) =
                    IF Len(words) = 0 THEN PyDict(<<>>)
                    ELSE PyDict(<< <<K_word_count, PyInt(Len(words))>>,
                                   <<K_avg_word_length, PyFloat(total, Len(words))>> >>)

\* The part of C5 the code keeps: no page fails for having no words, the
\* layout of such a page is empty, and that of a page with words is right.
LayoutEmptyOrStatistics ==
    /\ (Returned /\ pdf.opens /\ ~DateFieldNotText /\ ~SomePageFaulty) => ~IsNone(ret)
    /\ Succeeded =>
        \A n \in 1..Len(RetPages) :
            LET words == pdf.pages[n].words.list
                total == SumOver([k \in 1..Len(words) |->
                                    Len(Get(words[k], K_text).str)], Len(words))
                layout == Get(RetContent(n), K_layout)
            IN  IF Len(words) = 0 THEN ~Truthy(layout)
                ELSE layout = PyDict(<< <<K_word_count, PyInt(Len(words))>>,
                                        <<K_avg_word_length, PyFloat(total, Len(words))>> >>)

\* C6: a page's images flag is true exactly when its image list is not empty.
ImagesFlagTellsImages ==
    Succeeded =>
        \A n \in 1..Len(RetPages) :
            Get(RetContent(n), K_images) = PyBool(Len(pdf.pages[n].images.list) > 0)

\* The text holds no line break
IsCompact(text) == \A n \in 1..Len(text) : text[n] # "\n"

\* The lines of the text from the one that starts at position p on, `depth`
\* being the nesting depth before it: a line starts with width * (its
\* depth) blanks, a line that starts with a closing bracket is one level
\* up, a line that ends with an opening bracket opens a level; the text
\* ends at depth 0. (A JSON string holds no line break, starts with a quote
\* and ends with one, so that the first and last character of a line are
\* never inside a string.)
RECURSIVE LineScan(_, _, _, _)
LineScan(text, p, depth, width) ==
    LET e == CHOOSE r \in p..(Len(text) + 1) :
                /\ r = Len(text) + 1 \/ text[r] = "\n"
                /\ \A b \in p..(r - 1) : text[b] # "\n"
        q == CHOOSE r \in p..e : 
                /\ r = e \/ text[r] # " "
                /\ \A b \in p..(r - 1) : text[b] = " "
        d == IF q < e /\ text[q] \in {"}", "]"} THEN depth - 1 ELSE depth
        after == IF e > p /\ text[e - 1] \in {"{", "["} THEN d + 1 ELSE d
    IN  /\ q < e
        /\ q - p = width * d
        /\ IF e > Len(text) THEN after = 0 ELSE LineScan(text, e + 1, after, width)

\* The text is laid out on several lines, indented `width` blanks per level
IndentedAt(text, width) == ~IsCompact(text) /\ LineScan(text, 1, 0, width)

\* The JSON document main printed last
PrintedJson == stdout[Len(stdout)].text

\* C7 as stated: the file save_as_json writes is indented at level 2 when
\* pretty is set and compact when it is not, and parses back to the record.
SaveHonoursPretty ==
    (pc = "exit" /\ exitCode = 0 /\ args.output) =>
        /\ IF args.pretty THEN IndentedAt(outfile.str, 2) ELSE IsCompact(outfile.str)
        /\ json_loads(outfile.str) = ret

\* C7 as the code has it: save_as_json has no pretty argument and the file
\* is always indented at level 2; pretty selects indented or compact text
\* for the console only; the indented and the compact text of a record
\* parse back to equal structures.
SaveAlwaysIndents ==
    (pc = "exit" /\ exitCode = 0) =>
        /\ args.output =>
              /\ IndentedAt(outfile.str, 2)
              /\ json_loads(outfile.str) = ret
        /\ ~args.output =>
              /\ IF args.pretty THEN IndentedAt(PrintedJson, 2) ELSE IsCompact(PrintedJson)
              /\ json_loads(PrintedJson) = ret
        /\ json_loads(json_dumps(ret, PyInt(2))) = json_loads(json_dumps(ret, PyNone))

\* C7's case: a record with a page saved to a file without -p
SaveAlwaysIndentsWitness ==
    /\ pc = "exit"
    /\ exitCode = 0
    /\ args.output
    /\ ~args.pretty
    /\ Len(RetPages) >= 1
    /\ IsStr(outfile)

\* C8: stats.total_words is the sum over the pages of the number of
\* whitespace-delimited tokens of the page's text; a page without text has
\* the text "" (never None) and adds 0; layout.word_count plays no part.
TotalWordsCountsTextTokens ==
    Succeeded =>
        /\ Get(RetStats, K_total_words) =
              PyInt(SumOver([n \in 1..Len(pdf.pages) |->
                               TokensFrom(ExtractedText(pdf.pages[n]), 1, FALSE)],
                            Len(pdf.pages)))
        /\ \A n \in 1..Len(RetPages) :
              /\ IsStr(Get(RetContent(n), K_text))
              /\ Get(RetContent(n), K_text).str = ExtractedText(pdf.pages[n])
              /\ ~Truthy(pdf.pages[n].text) =>
                    /\ Get(RetContent(n), K_text) = PyStr(<<>>)
                    /\ TokensFrom(Get(RetContent(n), K_text).str, 1, FALSE) = 0

\* C8's case: a page without text beside words the extraction found, so
\* that total_words differs from the word_count of the layout
TotalWordsWitness ==
    /\ Succeeded
    /\ \E n \in 1..Len(RetPages) :
          /\ IsNone(pdf.pages[n].text)
          /\ IsDict(Get(RetContent(n), K_layout))
          /\ Get(Get(RetContent(n), K_layout), K_word_count).int >= 1
    /\ Get(RetStats, K_total_words) = PyInt(0)

\* C9: the exit code is 0 exactly when convert succeeded and, with -o, the
\* file was written; it is 1 when convert failed or save_as_json returned
\* False, which is how a write failure is reported; on failure neither the
\* JSON document nor the confirmation is printed.
ExitCodeTellsSuccess ==
    pc = "exit" =>
        LET written == /\ disk.fault = "none"
                       /\ IsStr(outfile)
                       /\ json_loads(outfile.str) = ret
            kinds == {stdout[n].kind : n \in 1..Len(stdout)}
        IN  /\ exitCode \in {0, 1}
            /\ exitCode = 0 <=> (~IsNone(ret) /\ (args.output => written))
            /\ exitCode = 1 <=> (IsNone(ret) \/ (args.output /\ disk.fault # "none"))
            /\ (~IsNone(ret) /\ args.output /\ disk.fault # "none") =>
                  stdout[Len(stdout)].kind = "error_saving"
            /\ exitCode = 1 => kinds \cap {"json", "saved"} = {}
            /\ exitCode = 0 =>
                  kinds = IF args.output THEN {"saved"} ELSE {"json"}

\* C9's case: convert succeeded and the write of the output file failed
ExitCodeWitness ==
    /\ pc = "exit"
    /\ exitCode = 1
    /\ ~IsNone(ret)
    /\ args.output
    /\ disk.fault = "write"
    /\ IsStr(outfile)

\* C10: the names of the metadata extract_metadata returns are the
\* document's names that are among the 8 recognized ones; no name is set to
\* None, and a field that is no date is copied as it is.
MetadataKeysAreRecognizedOnes ==
    pc = "pages" =>
        LET meta == Get(result, K_metadata)
        IN  /\ Keys(meta) = Keys(RawMeta) \cap RecognizedNames
            /\ Len(meta.dict) = Cardinality(Keys(meta))
            /\ \A k \in Keys(meta) :
                  /\ ~IsNone(Get(meta, k))
                  /\ k \notin DateNames => Get(meta, k) = Get(RawMeta, k)

\* C10's case: a document with a recognized name and one that is not
MetadataKeysWitness ==
    /\ pc = "pages"
    /\ F_Trapped \in Keys(RawMeta)
    /\ F_Author \in Keys(RawMeta)
    /\ Keys(Get(result, K_metadata)) = {F_Author}

=============================================================================
